---- MODULE Spec2Model ----
(***************************************************************************)
(* Model of the writeX-server route handlers (routes/auth.js,              *)
(* routes/users.js, routes/posts.js and routes/notes.js) over the Mongoose *)
(* document store.                                                         *)
(*                                                                         *)
(* Every `await` of a handler is one step: a handler runs from one await   *)
(* to the next without interruption (Node's event loop), and other         *)
(* requests may run between two awaits.  A document returned by findById   *)
(* is a private in-memory copy; doc.save() sends only the modified paths:  *)
(*   - Array.push               -> $push, appended to the array as stored  *)
(*                                 at the time of the write, __v + 1;      *)
(*   - assignment of a new array, or splice                                *)
(*                              -> $set of the whole array, applied only   *)
(*                                 if __v is still the one that was read   *)
(*                                 (VersionError otherwise), __v + 1;      *)
(*   - assignment of a scalar   -> $set, no version test.                  *)
(* A rejected save lands in the handler's catch block: status 500.         *)
(***************************************************************************)
EXTENDS Integers, Sequences, FiniteSets, TLC

\* ------------------------------------------------------------------ bounds
NumUsers == 3          \* registered users
NumProcs == 2          \* requests that can be in flight together
MaxPosts == 1          \* posts ever created
MaxComments == 3       \* comments ever created
MaxRequests == 4       \* requests received in one behaviour, one at a time
MaxToggleRequests == 6 \* the same, when only create, follow and like arrive
MaxConcurrentRequests == 3  \* the same, when requests interleave
MaxRacingRequests == 2 \* follow requests that interleave, before
MaxFollowRequests == 4 \*   follow requests run one at a time up to this many
MaxRacingLikeRequests == 3  \* create and like requests that interleave, before
MaxLikeRequests == 5   \*   like requests run one at a time up to this many
MaxRegistrations == 2  \* users registered after the first NumUsers
MaxAccountRequests == 3 \* register and profile requests in one behaviour
MaxNotes == 2          \* notes ever created
MaxNoteRequests == 3   \* note requests in one behaviour, one at a time
MaxIdRequests == 3     \* requests in one behaviour when ids of any form arrive
MaxCommentRequests == 6 \* create, comment, like and update requests, one at a time
MaxContentRequests == 3 \* requests in one behaviour when any content arrives
MaxSetupRequests == 3  \* requests run one at a time before two post requests
MaxPostRacingRequests == 2 \*   like, comment or comment delete requests interleave
MaxGateRequests == 6   \* follow, like and comment requests of two users

Users == 1..NumUsers
Procs == 1..NumProcs
PostIds == 1..MaxPosts
NoSuchId == 0          \* a well-formed id that names no stored document
Contents == {"hello", "edited"}     \* post contents
CommentContents == {"nice"}         \* comment contents
NoteIds == 1..MaxNotes
BadId == -1            \* an id that is not a well-formed ObjectId
AccountIds == 1..(NumUsers + MaxRegistrations)
\* Usernames and emails, the i-th being those of the i-th user registered
\* when the usernames and emails in use are all different.
Usernames == <<"ann", "bob", "cat", "dan", "eve", "fay", "gus", "hal">>
Emails == <<"ann@x.io", "bob@x.io", "cat@x.io", "dan@x.io", "eve@x.io",
            "fay@x.io", "gus@x.io", "hal@x.io">>

VARIABLES
    users,        \* User collection: id -> document
    posts,        \* Post collection: id -> document (exists = FALSE: none)
    nextPost,     \* number of posts created so far (ids are never reused)
    nextComment,  \* number of comment subdocuments created so far
    pc,           \* per request slot: the await the handler is suspended at
    req,          \* per request slot: route, authenticated user, parameters
    loc,          \* per request slot: the handler's local documents
    res,          \* per request slot: the response sent
    nreq,         \* requests received so far
    hist,         \* the last completed request, its response, the store before it
    accounts,     \* User collection, identity fields: id -> username, email, bio
    notes,        \* Note collection: id -> document (exists = FALSE: none)
    nextNote      \* number of notes created so far

vars == <<users, posts, nextPost, nextComment, pc, req, loc, res, nreq,
          accounts, notes, nextNote>>

\* ------------------------------------------------------------- documents
NullUser == [exists |-> FALSE, following |-> <<>>, followers |-> <<>>, v |-> 0]
NewUser == [exists |-> TRUE, following |-> <<>>, followers |-> <<>>, v |-> 0]
NullPost == [exists |-> FALSE, author |-> 0, content |-> "", likes |-> <<>>,
             comments |-> <<>>, v |-> 0]

NullAccount == [exists |-> FALSE, username |-> "", email |-> "", bio |-> ""]
NullNote == [exists |-> FALSE, user |-> 0, title |-> "", content |-> "",
             tags |-> <<>>, isPinned |-> FALSE, v |-> 0]
\* A field of a request body: <<>> when the body has no such field
\* (undefined), <<x>> when it has the value x.
undefined == <<>>

\* mongoose.Types.ObjectId.isValid
isValidObjectId(id) == id # BadId

\* Model.findById
findUser(id) == IF id \in Users THEN users[id] ELSE NullUser
findPost(id) == IF id \in PostIds THEN posts[id] ELSE NullPost
findNote(id) == IF id \in NoteIds THEN notes[id] ELSE NullNote

\* ------------------------------------------------------- array helpers
\* Array.prototype.includes
includes(arr, x) == \E i \in 1..Len(arr) : arr[i] = x
\* arr.filter((e) => e.toString() !== x)
filterOut(arr, x) == SelectSeq(arr, LAMBDA e : e # x)
\* arr.findIndex on the user of each element; 0 stands for JavaScript's -1
RECURSIVE findIndexFrom(_, _, _)
findIndexFrom(arr, x, i) ==
    IF i > Len(arr) THEN 0
    ELSE IF arr[i] = x THEN i ELSE findIndexFrom(arr, x, i + 1)
findIndex(arr, x) == findIndexFrom(arr, x, 1)
\* arr.splice(i, 1)
spliceSwapRemove(arr, i) ==
    IF i = Len(arr) THEN SubSeq(arr, 1, i - 1)
    ELSE SubSeq(arr, 1, i - 1) \o <<arr[Len(arr)]>>
         \o SubSeq(arr, i + 1, Len(arr) - 1)
splice(arr, i) == SubSeq(arr, 1, i - 1) \o SubSeq(arr, i + 1, Len(arr))
count(arr, x) == Cardinality({i \in 1..Len(arr) : arr[i] = x})

\* ------------------------------------------------------ requests, locals
NoReq == [op |-> "none", user |-> 0, id |-> 0, cid |-> 0, content |-> "",
          username |-> "", email |-> "", password |-> "", bio |-> "",
          title |-> "", tags |-> <<>>, isPinned |-> <<>>]
NoRes == [status |-> 0, isFollowing |-> FALSE, followersCount |-> 0,
          notes |-> <<>>]
NoLoc == [userToFollow |-> NullUser, currentUser |-> NullUser,
          postAuthor |-> NullUser, post |-> NullPost,
          isFollowing |-> FALSE, cuOp |-> "none", utfOp |-> "none",
          postOp |-> "none", note |-> NullNote, noteOp |-> "none"]
\* hist:
\*   users, posts   = the store when a request last arrived with no other
\*                    request in flight (with requests one at a time: the
\*                    store when the last request completed, which is the
\*                    store the request in flight started from);
\*   reqs           = the requests that have arrived since, that one first
\*                    (kept only when requests interleave);
\*   req, res       = the last completed request and its response when it
\*                    overlapped no other request and was a successful
\*                    follow or like toggle (NoReq, NoRes otherwise);
\*   users0, posts0 = the store when that request arrived.
NoHist == [req |-> NoReq, res |-> NoRes, reqs |-> <<>>,
           users0 |-> [u \in Users |-> NewUser],
           posts0 |-> [i \in PostIds |-> NullPost],
           users |-> [u \in Users |-> NewUser],
           posts |-> [i \in PostIds |-> NullPost],
           notes |-> [i \in NoteIds |-> NullNote]]

Response(status) == [NoRes EXCEPT !.status = status]

Init ==
    /\ users = [u \in Users |-> NewUser]
    /\ posts = [i \in PostIds |-> NullPost]
    /\ nextPost = 0
    /\ nextComment = 0
    /\ pc = [p \in Procs |-> "idle"]
    /\ req = [p \in Procs |-> NoReq]
    /\ loc = [p \in Procs |-> NoLoc]
    /\ res = [p \in Procs |-> NoRes]
    /\ nreq = 0
    /\ hist = NoHist
    /\ accounts = [i \in AccountIds |->
                      IF i \in Users
                      THEN [exists |-> TRUE, username |-> Usernames[i],
                            email |-> Emails[i], bio |-> ""]
                      ELSE NullAccount]
    /\ notes = [i \in NoteIds |-> NullNote]
    /\ nextNote = 0

\* A request is accepted into a free slot.
Receive(p, r) ==
    /\ pc[p] = "idle"
    /\ nreq' = nreq + 1
    /\ req' = [req EXCEPT ![p] = r]

\* The handler returns after res.json / res.status(..).json.
Reply(p, r) ==
    /\ pc' = [pc EXCEPT ![p] = "done"]
    /\ res' = [res EXCEPT ![p] = r]

\* ------------------------------------------------------------ doc.save()
\* What save() sends for a user document and what the store does with it.
\* `doc` is the in-memory document, `op` the modification recorded on it;
\* a push sends the element that was pushed, the last of the in-memory array.
\* Result: ok = FALSE when save() rejects.
last(arr) == arr[Len(arr)]

saveUser(stored, doc, op) ==
    CASE op = "pushFollowing" ->
            [ok |-> TRUE,
             doc |-> [stored EXCEPT !.following = Append(@, last(doc.following)),
                                    !.v = @ + 1]]
      [] op = "pushFollowers" ->
            [ok |-> TRUE,
             doc |-> [stored EXCEPT !.followers = Append(@, last(doc.followers)),
                                    !.v = @ + 1]]
      [] op = "setFollowing" ->
            IF stored.v = doc.v
            THEN [ok |-> TRUE,
                  doc |-> [stored EXCEPT !.following = doc.following, !.v = @ + 1]]
            ELSE [ok |-> FALSE, doc |-> stored]
      [] op = "setFollowers" ->
            IF stored.v = doc.v
            THEN [ok |-> TRUE,
                  doc |-> [stored EXCEPT !.followers = doc.followers, !.v = @ + 1]]
            ELSE [ok |-> FALSE, doc |-> stored]
      [] OTHER -> [ok |-> TRUE, doc |-> stored]

\* The same for a post document.  A save of a document that was deleted in
\* the meantime matches nothing and rejects.
savePostUnversioned(stored, doc, op) ==
    IF ~stored.exists THEN [ok |-> FALSE, doc |-> stored]
    ELSE [ok |-> TRUE,
          doc |-> [stored EXCEPT
                     !.likes = IF op = "pushLike" THEN Append(@, last(doc.likes))
                               ELSE IF op = "setLikes" THEN doc.likes ELSE @,
                     !.comments =
                        IF op = "pushComment" THEN Append(@, last(doc.comments))
                        ELSE IF op = "setComments" THEN doc.comments ELSE @,
                     !.content = IF op = "setContent" THEN doc.content ELSE @]]
savePost(stored, doc, op) ==
    IF ~stored.exists THEN [ok |-> FALSE, doc |-> stored]
    ELSE CASE op = "pushLike" ->
                 [ok |-> TRUE,
                  doc |-> [stored EXCEPT !.likes = Append(@, last(doc.likes)),
                                         !.v = @ + 1]]
           [] op = "pushComment" ->
                 [ok |-> TRUE,
                  doc |-> [stored EXCEPT !.comments = Append(@, last(doc.comments)),
                                         !.v = @ + 1]]
           [] op = "setLikes" ->
                 IF stored.v = doc.v
                 THEN [ok |-> TRUE,
                       doc |-> [stored EXCEPT !.likes = doc.likes, !.v = @ + 1]]
                 ELSE [ok |-> FALSE, doc |-> stored]
           [] op = "setComments" ->
                 IF stored.v = doc.v
                 THEN [ok |-> TRUE,
                       doc |-> [stored EXCEPT !.comments = doc.comments, !.v = @ + 1]]
                 ELSE [ok |-> FALSE, doc |-> stored]
           [] op = "setContent" ->
                 [ok |-> TRUE, doc |-> [stored EXCEPT !.content = doc.content]]
           [] OTHER -> [ok |-> TRUE, doc |-> stored]

\* -------------------------------------------- POST /api/users/:id/follow
\* Lines 63-72: the id is validated; first await, findById(id).
FollowFindUserToFollow(p, actor, id) ==
    /\ Receive(p, [NoReq EXCEPT !.op = "follow", !.user = actor, !.id = id])
    /\ IF ~isValidObjectId(id) THEN
           /\ Reply(p, Response(400))
           /\ UNCHANGED loc
       ELSE
           /\ loc' = [loc EXCEPT ![p] =
                         [NoLoc EXCEPT !.userToFollow = findUser(id)]]
           /\ pc' = [pc EXCEPT ![p] = "findCurrentUser"]
           /\ UNCHANGED res
    /\ UNCHANGED <<users, posts, nextPost, nextComment>>

\* ------------------------------------------------- GET /api/users/:id
\* Lines 29-45: the id is validated; first await, User.findById(id).
GetUserFindById(p, actor, id) ==
    /\ Receive(p, [NoReq EXCEPT !.op = "getUser", !.user = actor, !.id = id])
    /\ IF ~isValidObjectId(id) THEN
           Reply(p, Response(400))
       ELSE IF ~findUser(id).exists THEN
           Reply(p, Response(404))
       ELSE
           /\ pc' = [pc EXCEPT ![p] = "getUserFindPosts"]
           /\ UNCHANGED res
    /\ UNCHANGED <<users, posts, nextPost, nextComment, loc>>

\* Lines 48-53: await Post.find({ author: id }), then the response.
GetUserFindPosts(p) ==
    /\ pc[p] = "getUserFindPosts"
    /\ Reply(p, Response(200))
    /\ UNCHANGED <<users, posts, nextPost, nextComment, req, loc, nreq>>

\* Line 80: id === req.user.id.toString()
isSelfNever(id, actor) == FALSE
isSelf(id, actor) == id = actor

\* The in-memory arrays after the follow / unfollow branch (lines 84-98).
FollowedFollowing(cur, id) == Append(cur.following, id)
FollowedFollowers(tgt, actor) == Append(tgt.followers, actor)
UnfollowedFollowingKept(cur, id) == cur.following
UnfollowedFollowing(cur, id) == filterOut(cur.following, id)
UnfollowedFollowersKept(tgt, actor) == tgt.followers
UnfollowedFollowers(tgt, actor) == filterOut(tgt.followers, actor)

\* Lines 73-98: second await, then the checks and the in-memory update.
FollowFindCurrentUser(p) ==
    /\ pc[p] = "findCurrentUser"
    /\ LET id == req[p].id
           actor == req[p].user
           userToFollow == loc[p].userToFollow
           currentUser == findUser(actor)
           isFollowing == includes(currentUser.following, id)
       IN IF ~userToFollow.exists THEN
              /\ Reply(p, Response(404))
              /\ UNCHANGED loc
          ELSE IF isSelf(id, actor) THEN
              /\ Reply(p, Response(400))
              /\ UNCHANGED loc
          ELSE
              /\ loc' = [loc EXCEPT ![p] =
                    [@ EXCEPT !.isFollowing = isFollowing,
                              !.currentUser =
                                 [currentUser EXCEPT !.following =
                                    IF isFollowing
                                    THEN UnfollowedFollowing(currentUser, id)
                                    ELSE FollowedFollowing(currentUser, id)],
                              !.userToFollow =
                                 [userToFollow EXCEPT !.followers =
                                    IF isFollowing
                                    THEN UnfollowedFollowers(userToFollow, actor)
                                    ELSE FollowedFollowers(userToFollow, actor)],
                              !.cuOp = IF isFollowing THEN "setFollowing"
                                       ELSE "pushFollowing",
                              !.utfOp =
                                 IF ~isFollowing THEN "pushFollowers"
                                 ELSE IF includes(userToFollow.followers, actor)
                                      THEN "setFollowers"
                                      ELSE "none"]]
              /\ pc' = [pc EXCEPT ![p] = "saveCurrentUser"]
              /\ UNCHANGED res
    /\ UNCHANGED <<users, posts, nextPost, nextComment, req, nreq>>

\* Line 100: await currentUser.save().
FollowSaveCurrentUser(p) ==
    /\ pc[p] = "saveCurrentUser"
    /\ LET actor == req[p].user
           w == saveUser(users[actor], loc[p].currentUser, loc[p].cuOp)
       IN IF w.ok THEN
              /\ users' = [users EXCEPT ![actor] = w.doc]
              /\ pc' = [pc EXCEPT ![p] = "saveUserToFollow"]
              /\ UNCHANGED res
          ELSE
              /\ Reply(p, Response(500))
              /\ UNCHANGED users
    /\ UNCHANGED <<posts, nextPost, nextComment, req, loc, nreq>>

\* Lines 101-107: await userToFollow.save(), then the response.
FollowSaveUserToFollow(p) ==
    /\ pc[p] = "saveUserToFollow"
    /\ LET id == req[p].id
           w == saveUser(users[id], loc[p].userToFollow, loc[p].utfOp)
       IN IF w.ok THEN
              /\ users' = [users EXCEPT ![id] = w.doc]
              /\ Reply(p, [Response(200) EXCEPT
                           !.isFollowing = ~loc[p].isFollowing,
                           !.followersCount = Len(loc[p].userToFollow.followers)])
          ELSE
              /\ Reply(p, Response(500))
              /\ UNCHANGED users
    /\ UNCHANGED <<posts, nextPost, nextComment, req, loc, nreq>>

\* ------------------------------------------------------- POST /api/posts
\* body("content").notEmpty(): the value is not the empty string.
notEmpty(content) == content # ""

\* Content made of white space only.
Blank == {" ", "  "}
\* The outcomes of the schema validation that save() runs on a content: the
\* Post schema may or may not trim and require the path, so a save of blank
\* content is either applied or rejected (ValidationError).
schemaAccepts(content) == IF content \in Blank THEN BOOLEAN ELSE {TRUE}

\* Lines 33-58: the validator, new Post({author, content}), await post.save().
CreatePost(p, actor, content) ==
    /\ Receive(p, [NoReq EXCEPT !.op = "create", !.user = actor,
                                !.content = content])
    /\ nextPost < MaxPosts
    /\ IF ~notEmpty(content) THEN
           /\ Reply(p, Response(400))
           /\ UNCHANGED <<posts, nextPost>>
       ELSE
           \E accepted \in schemaAccepts(content) :
               IF accepted THEN
                   /\ nextPost' = nextPost + 1
                   /\ posts' = [posts EXCEPT ![nextPost + 1] =
                                   [exists |-> TRUE, author |-> actor,
                                    content |-> content,
                                    likes |-> <<>>, comments |-> <<>>, v |-> 0]]
                   /\ Reply(p, Response(201))
               ELSE
                   /\ Reply(p, Response(500))
                   /\ UNCHANGED <<posts, nextPost>>
    /\ UNCHANGED <<users, nextComment, loc>>

\* Lines 91 and 124: post.author.toString() !== req.user._id.toString()
notOwnerNever(post, actor) == FALSE
notOwner(post, actor) == post.author # actor

\* ---------------------------------------------------- PUT /api/posts/:id
\* Lines 69-95: the validator, the id is validated, findById, the 404 and
\* ownership checks, post.content = ...
UpdateFindPost(p, actor, id, content) ==
    /\ Receive(p, [NoReq EXCEPT !.op = "update", !.user = actor, !.id = id,
                                !.content = content])
    /\ LET post == findPost(id)
       IN IF ~notEmpty(content) \/ ~isValidObjectId(id) THEN
              /\ Reply(p, Response(400))
              /\ UNCHANGED loc
          ELSE IF ~post.exists THEN
              /\ Reply(p, Response(404))
              /\ UNCHANGED loc
          ELSE IF notOwner(post, actor) THEN
              /\ Reply(p, Response(403))
              /\ UNCHANGED loc
          ELSE
              /\ loc' = [loc EXCEPT ![p] =
                    [NoLoc EXCEPT !.post = [post EXCEPT !.content = content],
                                  !.postOp = IF post.content = content
                                             THEN "none" ELSE "setContent"]]
              /\ pc' = [pc EXCEPT ![p] = "updateSave"]
              /\ UNCHANGED res
    /\ UNCHANGED <<users, posts, nextPost, nextComment>>

\* Lines 96-99: await post.save(), then the response.
UpdateSave(p) ==
    /\ pc[p] = "updateSave"
    /\ \E accepted \in schemaAccepts(loc[p].post.content) :
       LET id == req[p].id
           w == savePost(posts[id], loc[p].post, loc[p].postOp)
       IN IF w.ok /\ accepted THEN
              /\ posts' = [posts EXCEPT ![id] = w.doc]
              /\ Reply(p, Response(200))
          ELSE
              /\ Reply(p, Response(500))
              /\ UNCHANGED posts
    /\ UNCHANGED <<users, nextPost, nextComment, req, loc, nreq>>

\* ------------------------------------------------- DELETE /api/posts/:id
\* Lines 110-126: the id is validated, findById, the 404 and ownership
\* checks.
DeleteFindPost(p, actor, id) ==
    /\ Receive(p, [NoReq EXCEPT !.op = "delete", !.user = actor, !.id = id])
    /\ LET post == findPost(id)
       IN IF ~isValidObjectId(id) THEN
              /\ Reply(p, Response(400))
          ELSE IF ~post.exists THEN
              /\ Reply(p, Response(404))
          ELSE IF notOwner(post, actor) THEN
              /\ Reply(p, Response(403))
          ELSE
              /\ pc' = [pc EXCEPT ![p] = "findByIdAndDelete"]
              /\ UNCHANGED res
    /\ UNCHANGED <<users, posts, nextPost, nextComment, loc>>

\* Lines 128-129: await Post.findByIdAndDelete(id), then the response.
DeleteFindByIdAndDelete(p) ==
    /\ pc[p] = "findByIdAndDelete"
    /\ posts' = [posts EXCEPT ![req[p].id] = NullPost]
    /\ Reply(p, Response(200))
    /\ UNCHANGED <<users, nextPost, nextComment, req, loc, nreq>>

\* ------------------------------------------- the like and comment gate
\* Lines 168-171 and 239-242.
isFollowingOrFollowerAlways(currentUser, postAuthor, post, actor) == TRUE
isFollowingOrFollowerOrLiked(currentUser, postAuthor, post, actor) ==
    \/ includes(currentUser.following, post.author)
    \/ includes(postAuthor.followers, actor)
    \/ post.author = actor
    \/ includes(post.likes, actor)
isFollowingOrFollower(currentUser, postAuthor, post, actor) ==
    \/ includes(currentUser.following, post.author)
    \/ includes(postAuthor.followers, actor)
    \/ post.author = actor

\* ---------------------------------------------- POST /api/posts/:id/like
\* Lines 139-151: the id is validated; first await, Post.findById.
LikeFindPost(p, actor, id) ==
    /\ Receive(p, [NoReq EXCEPT !.op = "like", !.user = actor, !.id = id])
    /\ IF ~isValidObjectId(id) THEN
           /\ Reply(p, Response(400))
           /\ UNCHANGED loc
       ELSE
           /\ loc' = [loc EXCEPT ![p] = [NoLoc EXCEPT !.post = findPost(id)]]
           /\ pc' = [pc EXCEPT ![p] = "likeFindCurrentUser"]
           /\ UNCHANGED res
    /\ UNCHANGED <<users, posts, nextPost, nextComment>>

\* Lines 152-160: second await, User.findById(req.user._id); the 404s.
LikeFindCurrentUser(p) ==
    /\ pc[p] = "likeFindCurrentUser"
    /\ LET currentUser == findUser(req[p].user)
       IN IF ~loc[p].post.exists \/ ~currentUser.exists THEN
              /\ Reply(p, Response(404))
              /\ UNCHANGED loc
          ELSE
              /\ loc' = [loc EXCEPT ![p].currentUser = currentUser]
              /\ pc' = [pc EXCEPT ![p] = "likeFindPostAuthor"]
              /\ UNCHANGED res
    /\ UNCHANGED <<users, posts, nextPost, nextComment, req, nreq>>

\* Lines 163-189: third await, User.findById(post.author); the gate; the
\* like is spliced out or pushed on the in-memory post.
LikeFindPostAuthor(p) ==
    /\ pc[p] = "likeFindPostAuthor"
    /\ LET actor == req[p].user
           post == loc[p].post
           postAuthor == findUser(post.author)
           likeIndex == findIndex(post.likes, actor)
       IN IF ~postAuthor.exists THEN
              /\ Reply(p, Response(404))
              /\ UNCHANGED loc
          ELSE IF ~isFollowingOrFollower(loc[p].currentUser, postAuthor, post,
                                        actor) THEN
              /\ Reply(p, Response(403))
              /\ UNCHANGED loc
          ELSE
              /\ loc' = [loc EXCEPT ![p] =
                    [@ EXCEPT !.postAuthor = postAuthor,
                              !.post = [post EXCEPT !.likes =
                                          IF likeIndex > 0
                                          THEN splice(post.likes, likeIndex)
                                          ELSE Append(post.likes, actor)],
                              !.postOp = IF likeIndex > 0 THEN "setLikes"
                                         ELSE "pushLike"]]
              /\ pc' = [pc EXCEPT ![p] = "likeSave"]
              /\ UNCHANGED res
    /\ UNCHANGED <<users, posts, nextPost, nextComment, req, nreq>>

\* Lines 191-192: await post.save(), then the response.
LikeSave(p) ==
    /\ pc[p] = "likeSave"
    /\ LET id == req[p].id
           w == savePost(posts[id], loc[p].post, loc[p].postOp)
       IN IF w.ok THEN
              /\ posts' = [posts EXCEPT ![id] = w.doc]
              /\ Reply(p, Response(200))
          ELSE
              /\ Reply(p, Response(500))
              /\ UNCHANGED posts
    /\ UNCHANGED <<users, nextPost, nextComment, req, loc, nreq>>

\* ------------------------------------------- POST /api/posts/:id/comment
\* Comment subdocuments get a fresh _id each; MaxComments bounds how many
\* are ever created, counting the requests that have yet to create theirs.
CommentsPending ==
    Cardinality({q \in Procs :
        pc[q] \in {"commentFindCurrentUser", "commentFindPostAuthor"}})

\* Lines 202-222: the validator, the id is validated; Post.findById.
CommentFindPost(p, actor, id, content) ==
    /\ Receive(p, [NoReq EXCEPT !.op = "comment", !.user = actor, !.id = id,
                                !.content = content])
    /\ nextComment + CommentsPending < MaxComments
    /\ IF ~notEmpty(content) \/ ~isValidObjectId(id) THEN
           /\ Reply(p, Response(400))
           /\ UNCHANGED loc
       ELSE
           /\ loc' = [loc EXCEPT ![p] = [NoLoc EXCEPT !.post = findPost(id)]]
           /\ pc' = [pc EXCEPT ![p] = "commentFindCurrentUser"]
           /\ UNCHANGED res
    /\ UNCHANGED <<users, posts, nextPost, nextComment>>

\* Lines 223-231: User.findById(req.user._id); the 404s.
CommentFindCurrentUser(p) ==
    /\ pc[p] = "commentFindCurrentUser"
    /\ LET currentUser == findUser(req[p].user)
       IN IF ~loc[p].post.exists \/ ~currentUser.exists THEN
              /\ Reply(p, Response(404))
              /\ UNCHANGED loc
          ELSE
              /\ loc' = [loc EXCEPT ![p].currentUser = currentUser]
              /\ pc' = [pc EXCEPT ![p] = "commentFindPostAuthor"]
              /\ UNCHANGED res
    /\ UNCHANGED <<users, posts, nextPost, nextComment, req, nreq>>

\* Lines 234-255: User.findById(post.author); the gate; the new comment is
\* pushed on the in-memory post.
CommentFindPostAuthor(p) ==
    /\ pc[p] = "commentFindPostAuthor"
    /\ LET actor == req[p].user
           post == loc[p].post
           postAuthor == findUser(post.author)
           newComment == [id |-> nextComment + 1, user |-> actor,
                          content |-> req[p].content]
       IN IF ~postAuthor.exists THEN
              /\ Reply(p, Response(404))
              /\ UNCHANGED <<loc, nextComment>>
          ELSE IF ~isFollowingOrFollower(loc[p].currentUser, postAuthor, post,
                                        actor) THEN
              /\ Reply(p, Response(403))
              /\ UNCHANGED <<loc, nextComment>>
          ELSE
              /\ loc' = [loc EXCEPT ![p] =
                    [@ EXCEPT !.postAuthor = postAuthor,
                              !.post = [post EXCEPT !.comments =
                                          Append(post.comments, newComment)],
                              !.postOp = "pushComment"]]
              /\ nextComment' = nextComment + 1
              /\ pc' = [pc EXCEPT ![p] = "commentSave"]
              /\ UNCHANGED res
    /\ UNCHANGED <<users, posts, nextPost, req, nreq>>

\* Lines 256-259: await post.save(), then the response.
CommentSave(p) ==
    /\ pc[p] = "commentSave"
    /\ \E accepted \in schemaAccepts(req[p].content) :
       LET id == req[p].id
           w == savePost(posts[id], loc[p].post, loc[p].postOp)
       IN IF w.ok /\ accepted THEN
              /\ posts' = [posts EXCEPT ![id] = w.doc]
              /\ Reply(p, Response(200))
          ELSE
              /\ Reply(p, Response(500))
              /\ UNCHANGED posts
    /\ UNCHANGED <<users, nextPost, nextComment, req, loc, nreq>>

\* ------------------------ DELETE /api/posts/:postId/comments/:commentId
\* Lines 286-288: comments.findIndex((c) => c._id.toString() === commentId)
commentIndex(comments, cid) ==
    findIndex([i \in 1..Len(comments) |-> comments[i].id], cid)

\* Line 295: comments[commentIndex].user.toString() !== req.user._id.toString()
notCommentAuthorNever(comment, actor) == FALSE
notCommentAuthor(comment, actor) == comment.user # actor

\* Lines 270-300: both ids are validated, Post.findById, the 404s, the
\* author check, the splice.
DeleteCommentFindPost(p, actor, id, cid) ==
    /\ Receive(p, [NoReq EXCEPT !.op = "deleteComment", !.user = actor,
                                !.id = id, !.cid = cid])
    /\ LET post == findPost(id)
           index == commentIndex(post.comments, cid)
       IN IF ~isValidObjectId(id) \/ ~isValidObjectId(cid) THEN
              /\ Reply(p, Response(400))
              /\ UNCHANGED loc
          ELSE IF ~post.exists THEN
              /\ Reply(p, Response(404))
              /\ UNCHANGED loc
          ELSE IF index = 0 THEN
              /\ Reply(p, Response(404))
              /\ UNCHANGED loc
          ELSE IF notCommentAuthor(post.comments[index], actor) THEN
              /\ Reply(p, Response(403))
              /\ UNCHANGED loc
          ELSE
              /\ loc' = [loc EXCEPT ![p] =
                    [NoLoc EXCEPT !.post = [post EXCEPT !.comments =
                                              splice(post.comments, index)],
                                  !.postOp = "setComments"]]
              /\ pc' = [pc EXCEPT ![p] = "deleteCommentSave"]
              /\ UNCHANGED res
    /\ UNCHANGED <<users, posts, nextPost, nextComment>>

\* Lines 301-302: await post.save(), then the response.
DeleteCommentSave(p) ==
    /\ pc[p] = "deleteCommentSave"
    /\ LET id == req[p].id
           w == savePost(posts[id], loc[p].post, loc[p].postOp)
       IN IF w.ok THEN
              /\ posts' = [posts EXCEPT ![id] = w.doc]
              /\ Reply(p, Response(200))
          ELSE
              /\ Reply(p, Response(500))
              /\ UNCHANGED posts
    /\ UNCHANGED <<users, nextPost, nextComment, req, loc, nreq>>

\* ------------------------------------------------ POST /api/auth/register
\* Lines 36-38: User.findOne({ $or: [{ email }, { username }] }), tested for
\* a result at line 40.
existingUserByEmail(username, email) ==
    \E i \in AccountIds : accounts[i].exists /\ accounts[i].email = email
existingUser(username, email) ==
    \E i \in AccountIds :
        /\ accounts[i].exists
        /\ accounts[i].email = email \/ accounts[i].username = username

\* The unique indexes of the User collection on username and on email: a
\* write that would store a value another user holds is rejected.
usernameTaken(id, username) ==
    \E j \in AccountIds \ {id} :
        accounts[j].exists /\ accounts[j].username = username
emailTaken(id, email) ==
    \E j \in AccountIds \ {id} :
        accounts[j].exists /\ accounts[j].email = email

\* Registrations that have passed the existence check and not saved yet.
RegistrationsPending == Cardinality({q \in Procs : pc[q] = "registerSave"})
Registered == Cardinality({i \in AccountIds : accounts[i].exists})

\* Lines 22-42: the validators, then the first await, User.findOne, and the
\* test of its result.  The emails received are well-formed addresses.
RegisterFindOne(p, username, email, password) ==
    /\ Receive(p, [NoReq EXCEPT !.op = "register", !.username = username,
                                !.email = email, !.password = password])
    /\ Registered + RegistrationsPending < Cardinality(AccountIds)
    /\ IF Len(username) < 3 \/ Len(password) < 6 THEN
           Reply(p, Response(400))
       ELSE IF existingUser(username, email) THEN
           Reply(p, Response(400))
       ELSE
           /\ pc' = [pc EXCEPT ![p] = "registerSave"]
           /\ UNCHANGED res
    /\ UNCHANGED <<users, posts, nextPost, nextComment, loc, accounts>>

\* Lines 45-59: new User({username, email, password}), await user.save(),
\* then the response; a rejected save lands in the catch block.
RegisterSave(p) ==
    /\ pc[p] = "registerSave"
    /\ LET id == CHOOSE i \in AccountIds :
                    /\ ~accounts[i].exists
                    /\ \A j \in AccountIds : j < i => accounts[j].exists
       IN IF usernameTaken(id, req[p].username) \/ emailTaken(id, req[p].email)
          THEN /\ Reply(p, Response(500))
               /\ UNCHANGED accounts
          ELSE /\ accounts' = [accounts EXCEPT ![id] =
                                 [exists |-> TRUE, username |-> req[p].username,
                                  email |-> req[p].email, bio |-> ""]]
               /\ Reply(p, Response(201))
    /\ UNCHANGED <<users, posts, nextPost, nextComment, req, loc, nreq>>

\* ------------------------------------------------- PUT /api/users/profile
\* Line 128: User.findOne({ username }); 0 when there is none.
findOneByUsername(username) ==
    LET found == {i \in AccountIds :
                     accounts[i].exists /\ accounts[i].username = username}
    IN IF found = {} THEN 0
       ELSE CHOOSE i \in found : \A j \in found : i <= j

\* Lines 134-143: User.findByIdAndUpdate(req.user.id, updateFields); empty
\* fields are left out of updateFields.  ok = FALSE when the update is
\* rejected.
findByIdAndUpdate(id, username, bio) ==
    IF username # "" /\ usernameTaken(id, username)
    THEN [ok |-> FALSE, doc |-> accounts[id]]
    ELSE [ok |-> TRUE,
          doc |-> [accounts[id] EXCEPT
                     !.username = IF username # "" THEN username ELSE @,
                     !.bio = IF bio # "" THEN bio ELSE @]]

\* Lines 117-132: at least one field (bio stands for bio and avatar alike);
\* with a username, the first await is User.findOne and the taken test
\* follows; without one, the first await is the update itself.
ProfileFindOne(p, actor, username, bio) ==
    /\ Receive(p, [NoReq EXCEPT !.op = "profile", !.user = actor,
                                !.username = username, !.bio = bio])
    /\ accounts[actor].exists
    /\ LET existing == findOneByUsername(username)
           w == findByIdAndUpdate(actor, username, bio)
       IN IF bio = "" /\ username = "" THEN
              /\ Reply(p, Response(400))
              /\ UNCHANGED accounts
          ELSE IF username # "" /\ existing # 0 /\ existing # actor THEN
              /\ Reply(p, Response(400))
              /\ UNCHANGED accounts
          ELSE IF username # "" THEN
              /\ pc' = [pc EXCEPT ![p] = "findByIdAndUpdate"]
              /\ UNCHANGED <<res, accounts>>
          ELSE
              /\ accounts' = [accounts EXCEPT ![actor] = w.doc]
              /\ Reply(p, Response(200))
    /\ UNCHANGED <<users, posts, nextPost, nextComment, loc>>

\* Lines 139-145: await User.findByIdAndUpdate, then the response.
ProfileFindByIdAndUpdate(p) ==
    /\ pc[p] = "findByIdAndUpdate"
    /\ LET actor == req[p].user
           w == findByIdAndUpdate(actor, req[p].username, req[p].bio)
       IN IF w.ok THEN
              /\ accounts' = [accounts EXCEPT ![actor] = w.doc]
              /\ Reply(p, Response(200))
          ELSE
              /\ Reply(p, Response(500))
              /\ UNCHANGED accounts
    /\ UNCHANGED <<users, posts, nextPost, nextComment, req, loc, nreq>>

\* ---------------------------------------------------------- /api/notes
\* The ids of a set, largest first.
RECURSIVE sortDescending(_)
sortDescending(S) ==
    IF S = {} THEN <<>>
    ELSE LET m == CHOOSE x \in S : \A y \in S : y <= x
         IN <<m>> \o sortDescending(S \ {m})

\* Line 13: Note.find({ user }).sort({ isPinned: -1, createdAt: -1 }); notes
\* are created in the order of their ids.
findNotes(user) ==
    LET mine == {i \in NoteIds : notes[i].exists /\ notes[i].user = user}
    IN sortDescending({i \in mine : notes[i].isPinned})
       \o sortDescending({i \in mine : ~notes[i].isPinned})

\* Lines 11-15: GET /api/notes.
ListNotes(p, actor) ==
    /\ Receive(p, [NoReq EXCEPT !.op = "listNotes", !.user = actor])
    /\ Reply(p, [Response(200) EXCEPT !.notes = findNotes(actor)])
    /\ UNCHANGED <<users, posts, nextPost, nextComment, loc, notes, nextNote>>

\* Lines 45-46 and 90: tags || [], isPinned || false.
tagsOrEmpty(tags) == IF tags = undefined THEN <<>> ELSE tags[1]
isPinnedOrFalse(isPinned) == IF isPinned = undefined THEN FALSE ELSE isPinned[1]

\* Lines 25-50: POST /api/notes: the validators, new Note, await note.save().
CreateNote(p, actor, title, content, tags, isPinned) ==
    /\ Receive(p, [NoReq EXCEPT !.op = "createNote", !.user = actor,
                                !.title = title, !.content = content,
                                !.tags = tags, !.isPinned = isPinned])
    /\ nextNote < MaxNotes
    /\ IF title = "" \/ content = "" THEN
           /\ Reply(p, Response(400))
           /\ UNCHANGED <<notes, nextNote>>
       ELSE
           /\ nextNote' = nextNote + 1
           /\ notes' = [notes EXCEPT ![nextNote + 1] =
                           [exists |-> TRUE, user |-> actor, title |-> title,
                            content |-> content, tags |-> tagsOrEmpty(tags),
                            isPinned |-> isPinnedOrFalse(isPinned), v |-> 0]]
           /\ Reply(p, Response(201))
    /\ UNCHANGED <<users, posts, nextPost, nextComment, loc>>

\* Lines 82 and 114: note.user.toString() !== req.user.id.toString()
noteNotOwnerNever(note, actor) == FALSE
noteNotOwner(note, actor) == note.user # actor

\* Line 91: isPinned !== undefined ? isPinned : note.isPinned
isPinnedOrPrior(isPinned, note) ==
    IF isPinned # undefined /\ isPinned[1] THEN TRUE ELSE note.isPinned
isPinnedUpdated(isPinned, note) ==
    IF isPinned # undefined THEN isPinned[1] ELSE note.isPinned

\* note.save(): the scalar paths are sent as $set; a changed tags array is
\* sent as a $set of the whole array, applied only if __v is the one read.
saveNote(stored, doc, op) ==
    IF ~stored.exists THEN [ok |-> FALSE, doc |-> stored]
    ELSE IF op = "setTags" /\ stored.v # doc.v THEN [ok |-> FALSE, doc |-> stored]
    ELSE [ok |-> TRUE,
          doc |-> [stored EXCEPT
                     !.title = doc.title, !.content = doc.content,
                     !.isPinned = doc.isPinned,
                     !.tags = IF op = "setTags" THEN doc.tags ELSE @,
                     !.v = IF op = "setTags" THEN @ + 1 ELSE @]]

\* Lines 61-91: PUT /api/notes/:id: the validators, then the first await,
\* Note.findById, which rejects (CastError) for an id that is not well
\* formed; the 404 and ownership checks; the fields are assigned.
UpdateNoteFindById(p, actor, id, title, content, tags, isPinned) ==
    /\ Receive(p, [NoReq EXCEPT !.op = "updateNote", !.user = actor,
                                !.id = id, !.title = title,
                                !.content = content, !.tags = tags,
                                !.isPinned = isPinned])
    /\ LET note == findNote(id)
       IN IF title = "" \/ content = "" THEN
              /\ Reply(p, Response(400))
              /\ UNCHANGED loc
          ELSE IF ~isValidObjectId(id) THEN
              /\ Reply(p, Response(500))
              /\ UNCHANGED loc
          ELSE IF ~note.exists THEN
              /\ Reply(p, Response(404))
              /\ UNCHANGED loc
          ELSE IF noteNotOwner(note, actor) THEN
              /\ Reply(p, Response(403))
              /\ UNCHANGED loc
          ELSE
              /\ loc' = [loc EXCEPT ![p] =
                    [NoLoc EXCEPT
                       !.note = [note EXCEPT
                                   !.title = title, !.content = content,
                                   !.tags = tagsOrEmpty(tags),
                                   !.isPinned = isPinnedUpdated(isPinned, note)],
                       !.noteOp = IF tagsOrEmpty(tags) = note.tags
                                  THEN "set" ELSE "setTags"]]
              /\ pc' = [pc EXCEPT ![p] = "updateNoteSave"]
              /\ UNCHANGED res
    /\ UNCHANGED <<users, posts, nextPost, nextComment, notes, nextNote>>

\* Lines 93-94: await note.save(), then the response.
UpdateNoteSave(p) ==
    /\ pc[p] = "updateNoteSave"
    /\ LET id == req[p].id
           w == saveNote(notes[id], loc[p].note, loc[p].noteOp)
       IN IF w.ok THEN
              /\ notes' = [notes EXCEPT ![id] = w.doc]
              /\ Reply(p, Response(200))
          ELSE
              /\ Reply(p, Response(500))
              /\ UNCHANGED notes
    /\ UNCHANGED <<users, posts, nextPost, nextComment, req, loc, nreq,
                   nextNote>>

\* Lines 105-116: DELETE /api/notes/:id: Note.findById, which rejects for
\* an id that is not well formed; the 404 and ownership checks.
DeleteNoteFindById(p, actor, id) ==
    /\ Receive(p, [NoReq EXCEPT !.op = "deleteNote", !.user = actor, !.id = id])
    /\ LET note == findNote(id)
       IN IF ~isValidObjectId(id) THEN
              Reply(p, Response(500))
          ELSE IF ~note.exists THEN
              Reply(p, Response(404))
          ELSE IF noteNotOwner(note, actor) THEN
              Reply(p, Response(403))
          ELSE
              /\ pc' = [pc EXCEPT ![p] = "noteFindByIdAndDelete"]
              /\ UNCHANGED res
    /\ UNCHANGED <<users, posts, nextPost, nextComment, loc, notes, nextNote>>

\* Lines 118-119: await Note.findByIdAndDelete(id), then the response.
NoteFindByIdAndDelete(p) ==
    /\ pc[p] = "noteFindByIdAndDelete"
    /\ notes' = [notes EXCEPT ![req[p].id] = NullNote]
    /\ Reply(p, Response(200))
    /\ UNCHANGED <<users, posts, nextPost, nextComment, req, loc, nreq,
                   nextNote>>

\* The response has been sent; the slot is free again.
Finish(p) ==
    /\ pc[p] = "done"
    /\ pc' = [pc EXCEPT ![p] = "idle"]
    /\ req' = [req EXCEPT ![p] = NoReq]
    /\ loc' = [loc EXCEPT ![p] = NoLoc]
    /\ res' = [res EXCEPT ![p] = NoRes]
    /\ UNCHANGED <<users, posts, nextPost, nextComment, nreq>>

\* ---------------------------------------------------------- history
\* Requests one at a time: what the request that returns leaves behind.
Completed(p) ==
    LET toggled == req[p].op \in {"follow", "like"} /\ res[p].status = 200
    IN [hist EXCEPT !.req = IF toggled THEN req[p] ELSE NoReq,
                    !.res = IF toggled THEN res[p] ELSE NoRes,
                    !.users0 = hist.users, !.posts0 = hist.posts,
                    !.users = users, !.posts = posts, !.notes = notes]

\* Requests interleaved: request r arrives.
Arrived(r) ==
    IF \A q \in Procs : pc[q] = "idle"
    THEN [hist EXCEPT !.users = users, !.posts = posts, !.reqs = <<r>>]
    ELSE [hist EXCEPT !.reqs = Append(@, r)]

\* Requests interleaved: the request of slot p returns.
Returned(p) ==
    IF Len(hist.reqs) = 1 THEN Completed(p)
    ELSE [hist EXCEPT !.req = NoReq, !.res = NoRes]

\* ------------------------------------------------------- specifications
\* A request arrives and runs to its first await.
ArriveFollow(p) ==
    \E actor \in Users, id \in Users \cup {NoSuchId} :
        FollowFindUserToFollow(p, actor, id)

ArriveCreate(p) ==
    \E actor \in Users, content \in Contents : CreatePost(p, actor, content)

ArriveLike(p) ==
    \E actor \in Users, id \in PostIds : LikeFindPost(p, actor, id)

ArrivePost(p) ==
    \/ \E actor \in Users, id \in PostIds, content \in Contents :
           UpdateFindPost(p, actor, id, content)
    \/ \E actor \in Users, id \in PostIds : DeleteFindPost(p, actor, id)
    \/ \E actor \in Users, id \in PostIds, content \in CommentContents :
           CommentFindPost(p, actor, id, content)
    \/ \E actor \in Users, id \in PostIds, cid \in 1..MaxComments :
           DeleteCommentFindPost(p, actor, id, cid)

\* A suspended handler resumes at its await and runs to the next one.
ResumeToggle(p) ==
    \/ FollowFindCurrentUser(p)
    \/ FollowSaveCurrentUser(p)
    \/ FollowSaveUserToFollow(p)
    \/ LikeFindCurrentUser(p)
    \/ LikeFindPostAuthor(p)
    \/ LikeSave(p)

ResumePost(p) ==
    \/ UpdateSave(p)
    \/ DeleteFindByIdAndDelete(p)
    \/ CommentFindCurrentUser(p)
    \/ CommentFindPostAuthor(p)
    \/ CommentSave(p)
    \/ DeleteCommentSave(p)

\* Requests one at a time: a request arrives only when none is in flight.
Next ==
    \/ nreq < MaxRequests /\ ArriveFollow(1) /\ UNCHANGED <<hist, accounts, notes, nextNote>>
    \/ nreq < MaxRequests /\ ArriveCreate(1) /\ UNCHANGED <<hist, accounts, notes, nextNote>>
    \/ nreq < MaxRequests /\ ArriveLike(1) /\ UNCHANGED <<hist, accounts, notes, nextNote>>
    \/ nreq < MaxRequests /\ ArrivePost(1) /\ UNCHANGED <<hist, accounts, notes, nextNote>>
    \/ ResumeToggle(1) /\ UNCHANGED <<hist, accounts, notes, nextNote>>
    \/ ResumePost(1) /\ UNCHANGED <<hist, accounts, notes, nextNote>>
    \/ Finish(1) /\ hist' = Completed(1) /\ UNCHANGED <<accounts, notes, nextNote>>

Spec == Init /\ [][Next]_vars

\* Requests one at a time, of the create, follow and like routes only.
NextToggles ==
    \/ nreq < MaxToggleRequests /\ ArriveFollow(1) /\ UNCHANGED <<hist, accounts, notes, nextNote>>
    \/ nreq < MaxToggleRequests /\ ArriveCreate(1) /\ UNCHANGED <<hist, accounts, notes, nextNote>>
    \/ nreq < MaxToggleRequests /\ ArriveLike(1) /\ UNCHANGED <<hist, accounts, notes, nextNote>>
    \/ ResumeToggle(1) /\ UNCHANGED <<hist, accounts, notes, nextNote>>
    \/ Finish(1) /\ hist' = Completed(1) /\ UNCHANGED <<accounts, notes, nextNote>>

SpecToggles == Init /\ [][NextToggles]_vars

\* Requests interleaved at their awaits.
NextConcurrent ==
    \E p \in Procs :
        \/ nreq < MaxConcurrentRequests /\ ArriveFollow(p) /\ UNCHANGED <<hist, accounts, notes, nextNote>>
        \/ nreq < MaxConcurrentRequests /\ ArriveCreate(p) /\ UNCHANGED <<hist, accounts, notes, nextNote>>
        \/ nreq < MaxConcurrentRequests /\ ArriveLike(p) /\ UNCHANGED <<hist, accounts, notes, nextNote>>
        \/ nreq < MaxConcurrentRequests /\ ArrivePost(p) /\ UNCHANGED <<hist, accounts, notes, nextNote>>
        \/ ResumeToggle(p) /\ UNCHANGED <<hist, accounts, notes, nextNote>>
        \/ ResumePost(p) /\ UNCHANGED <<hist, accounts, notes, nextNote>>
        \/ Finish(p) /\ UNCHANGED <<hist, accounts, notes, nextNote>>

SpecConcurrent == Init /\ [][NextConcurrent]_vars

\* Follow requests only: the first MaxRacingRequests of them interleave at
\* their awaits, the later ones arrive when no request is in flight.
ResumeFollow(p) ==
    \/ FollowFindCurrentUser(p)
    \/ FollowSaveCurrentUser(p)
    \/ FollowSaveUserToFollow(p)

NextFollowRace ==
    \E p \in Procs :
        \/ /\ \/ nreq < MaxRacingRequests
              \/ nreq < MaxFollowRequests /\ \A q \in Procs : pc[q] = "idle"
           /\ ArriveFollow(p)
           /\ hist' = Arrived(req'[p]) /\ UNCHANGED <<accounts, notes, nextNote>>
        \/ ResumeFollow(p) /\ UNCHANGED <<hist, accounts, notes, nextNote>>
        \/ Finish(p) /\ hist' = Returned(p) /\ UNCHANGED <<accounts, notes, nextNote>>

SpecFollowRace == Init /\ [][NextFollowRace]_vars

\* Create and like requests only: the first MaxRacingLikeRequests of them
\* interleave at their awaits, the later ones arrive when no request is in
\* flight.
ResumeLike(p) ==
    \/ LikeFindCurrentUser(p)
    \/ LikeFindPostAuthor(p)
    \/ LikeSave(p)

NextLikeRace ==
    \E p \in Procs :
        \/ /\ \/ nreq < MaxRacingLikeRequests
              \/ nreq < MaxLikeRequests /\ \A q \in Procs : pc[q] = "idle"
           /\ ArriveCreate(p) \/ ArriveLike(p)
           /\ hist' = Arrived(req'[p]) /\ UNCHANGED <<accounts, notes, nextNote>>
        \/ ResumeLike(p) /\ UNCHANGED <<hist, accounts, notes, nextNote>>
        \/ Finish(p) /\ hist' = Returned(p) /\ UNCHANGED <<accounts, notes, nextNote>>

SpecLikeRace == Init /\ [][NextLikeRace]_vars

\* Register and profile requests only, interleaved at their awaits.
ArriveRegister(p) ==
    \E username \in {Usernames[1], Usernames[NumUsers + 1], "al"},
       email \in {Emails[1], Emails[NumUsers + 1], Emails[NumUsers + 2]},
       password \in {"secret", "pw"} :
        RegisterFindOne(p, username, email, password)

ArriveProfile(p) ==
    \E actor \in AccountIds,
       username \in {Usernames[1], Usernames[NumUsers + 1], ""},
       bio \in {"", "hi"} :
        ProfileFindOne(p, actor, username, bio)

ResumeAccount(p) ==
    \/ RegisterSave(p)
    \/ ProfileFindByIdAndUpdate(p)

NextAccounts ==
    \E p \in Procs :
        \/ /\ nreq < MaxAccountRequests /\ ArriveRegister(p)
           /\ UNCHANGED <<hist, notes, nextNote>>
        \/ /\ nreq < MaxAccountRequests /\ ArriveProfile(p)
           /\ UNCHANGED <<hist, notes, nextNote>>
        \/ ResumeAccount(p) /\ UNCHANGED <<hist, notes, nextNote>>
        \/ Finish(p) /\ UNCHANGED <<hist, accounts, notes, nextNote>>

SpecAccounts == Init /\ [][NextAccounts]_vars

\* Note requests only, one at a time.
Titles == {"todo"}
NoteContents == {"milk", "eggs"}
TagInputs == {undefined, << <<>> >>, << <<"home">> >>}
IsPinnedInputs == {undefined, <<TRUE>>, <<FALSE>>}

ArriveNote(p) ==
    \/ \E actor \in Users : ListNotes(p, actor)
    \/ \E actor \in Users, title \in Titles \cup {""},
          content \in NoteContents, tags \in TagInputs,
          isPinned \in IsPinnedInputs :
           CreateNote(p, actor, title, content, tags, isPinned)
    \/ \E actor \in Users, id \in NoteIds \cup {NoSuchId, BadId},
          title \in Titles \cup {""}, content \in NoteContents,
          tags \in TagInputs, isPinned \in IsPinnedInputs :
           UpdateNoteFindById(p, actor, id, title, content, tags, isPinned)
    \/ \E actor \in Users, id \in NoteIds \cup {NoSuchId, BadId} :
           DeleteNoteFindById(p, actor, id)

ResumeNote(p) ==
    \/ UpdateNoteSave(p)
    \/ NoteFindByIdAndDelete(p)

NextNotes ==
    \/ nreq < MaxNoteRequests /\ ArriveNote(1) /\ UNCHANGED <<hist, accounts>>
    \/ ResumeNote(1) /\ UNCHANGED <<hist, accounts>>
    \/ Finish(1) /\ hist' = Completed(1) /\ UNCHANGED <<accounts, notes, nextNote>>

SpecNotes == Init /\ [][NextNotes]_vars

\* Requests of every route that takes an id from the path, one at a time,
\* the id being that of a stored document, of none, or not well formed;
\* posts and notes are created for the ids to name.
AnyUserId == Users \cup {NoSuchId, BadId}
AnyPostId == PostIds \cup {NoSuchId, BadId}
AnyCommentId == (1..MaxComments) \cup {BadId}
AnyNoteId == NoteIds \cup {NoSuchId, BadId}

ArriveWithId(p) ==
    \/ \E actor \in Users, id \in AnyUserId : FollowFindUserToFollow(p, actor, id)
    \/ \E actor \in Users, id \in AnyUserId : GetUserFindById(p, actor, id)
    \/ \E actor \in Users, id \in AnyPostId, content \in Contents :
           UpdateFindPost(p, actor, id, content)
    \/ \E actor \in Users, id \in AnyPostId : DeleteFindPost(p, actor, id)
    \/ \E actor \in Users, id \in AnyPostId : LikeFindPost(p, actor, id)
    \/ \E actor \in Users, id \in AnyPostId, content \in CommentContents :
           CommentFindPost(p, actor, id, content)
    \/ \E actor \in Users, id \in AnyPostId, cid \in AnyCommentId :
           DeleteCommentFindPost(p, actor, id, cid)

ArriveWithNoteId(p) ==
    \/ \E actor \in Users, id \in AnyNoteId, title \in Titles \cup {""},
          content \in NoteContents :
           UpdateNoteFindById(p, actor, id, title, content, undefined, undefined)
    \/ \E actor \in Users, id \in AnyNoteId : DeleteNoteFindById(p, actor, id)

ArriveCreateNote(p) ==
    \E actor \in Users, content \in NoteContents :
        CreateNote(p, actor, "todo", content, undefined, undefined)

ResumeWithId(p) ==
    \/ ResumeToggle(p)
    \/ ResumePost(p)
    \/ GetUserFindPosts(p)

NextIds ==
    \/ /\ nreq < MaxIdRequests
       /\ ArriveWithId(1) \/ ArriveCreate(1)
       /\ UNCHANGED <<hist, accounts, notes, nextNote>>
    \/ /\ nreq < MaxIdRequests
       /\ ArriveWithNoteId(1) \/ ArriveCreateNote(1)
       /\ UNCHANGED <<hist, accounts>>
    \/ ResumeWithId(1) /\ UNCHANGED <<hist, accounts, notes, nextNote>>
    \/ ResumeNote(1) /\ UNCHANGED <<hist, accounts>>
    \/ Finish(1) /\ UNCHANGED <<hist, accounts, notes, nextNote>>

SpecIds == Init /\ [][NextIds]_vars

\* Requests of the create, comment, comment delete, like and update routes,
\* one at a time.
NextComments ==
    \/ /\ nreq < MaxCommentRequests
       /\ ArriveCreate(1) \/ ArriveLike(1) \/ ArrivePost(1)
       /\ UNCHANGED <<hist, accounts, notes, nextNote>>
    \/ /\ ResumeLike(1) \/ ResumePost(1)
       /\ UNCHANGED <<hist, accounts, notes, nextNote>>
    \/ Finish(1) /\ UNCHANGED <<hist, accounts, notes, nextNote>>

SpecComments == Init /\ [][NextComments]_vars

\* Requests of the create, update and comment routes, one at a time, with
\* content of any form.
AnyContent == Contents \cup CommentContents \cup Blank \cup {""}

ArriveContent(p) ==
    \/ \E actor \in Users, content \in AnyContent : CreatePost(p, actor, content)
    \/ \E actor \in Users, id \in PostIds, content \in AnyContent :
           UpdateFindPost(p, actor, id, content)
    \/ \E actor \in Users, id \in PostIds, content \in AnyContent :
           CommentFindPost(p, actor, id, content)

ResumeContent(p) ==
    \/ UpdateSave(p)
    \/ CommentFindCurrentUser(p)
    \/ CommentFindPostAuthor(p)
    \/ CommentSave(p)

NextContent ==
    \/ /\ nreq < MaxContentRequests /\ ArriveContent(1)
       /\ UNCHANGED <<hist, accounts, notes, nextNote>>
    \/ ResumeContent(1) /\ UNCHANGED <<hist, accounts, notes, nextNote>>
    \/ Finish(1) /\ hist' = Completed(1) /\ UNCHANGED <<accounts, notes, nextNote>>

SpecContent == Init /\ [][NextContent]_vars

\* The first MaxSetupRequests requests (create, follow, like, comment) run
\* one at a time; then MaxPostRacingRequests requests that mutate a post
\* (like, comment, comment delete) interleave at their awaits.  The requests
\* are those of two users.
RacingUsers == {1, 2}

ArriveSetup(p) ==
    \/ \E actor \in RacingUsers : CreatePost(p, actor, "hello")
    \/ \E actor \in RacingUsers, id \in RacingUsers :
           FollowFindUserToFollow(p, actor, id)
    \/ \E actor \in RacingUsers, id \in PostIds : LikeFindPost(p, actor, id)
    \/ \E actor \in RacingUsers, id \in PostIds, content \in CommentContents :
           CommentFindPost(p, actor, id, content)

ArrivePostMutation(p) ==
    \/ \E actor \in RacingUsers, id \in PostIds : LikeFindPost(p, actor, id)
    \/ \E actor \in RacingUsers, id \in PostIds, content \in CommentContents :
           CommentFindPost(p, actor, id, content)
    \/ \E actor \in RacingUsers, id \in PostIds, cid \in 1..MaxComments :
           DeleteCommentFindPost(p, actor, id, cid)

ResumePostMutation(p) ==
    \/ ResumeToggle(p)
    \/ CommentFindCurrentUser(p)
    \/ CommentFindPostAuthor(p)
    \/ CommentSave(p)
    \/ DeleteCommentSave(p)

NextPostRace ==
    \E p \in Procs :
        \/ /\ nreq < MaxSetupRequests /\ \A q \in Procs : pc[q] = "idle"
           /\ ArriveSetup(p)
           /\ hist' = Arrived(req'[p])
           /\ UNCHANGED <<accounts, notes, nextNote>>
        \/ /\ nreq >= MaxSetupRequests
           /\ nreq < MaxSetupRequests + MaxPostRacingRequests
           /\ ArrivePostMutation(p)
           /\ hist' = Arrived(req'[p])
           /\ UNCHANGED <<accounts, notes, nextNote>>
        \/ ResumePostMutation(p) /\ UNCHANGED <<hist, accounts, notes, nextNote>>
        \/ Finish(p) /\ UNCHANGED <<hist, accounts, notes, nextNote>>

SpecPostRace == Init /\ [][NextPostRace]_vars

\* Requests of the create, follow, like, comment and comment delete routes
\* by two users, one at a time.
NextGate ==
    \/ /\ nreq < MaxGateRequests
       /\ ArriveSetup(1) \/ ArrivePostMutation(1)
       /\ UNCHANGED <<hist, accounts, notes, nextNote>>
    \/ ResumePostMutation(1) /\ UNCHANGED <<hist, accounts, notes, nextNote>>
    \/ Finish(1) /\ hist' = Completed(1) /\ UNCHANGED <<accounts, notes, nextNote>>

SpecGate == Init /\ [][NextGate]_vars

\* ----------------------------------------------------------------- claims
AllIdle == \A p \in Procs : pc[p] = "idle"
Members(arr) == {arr[i] : i \in 1..Len(arr)}
follows(us, a, b) == includes(us[a].following, b)
\* The connectivity predicate as specified: either direction, or self.
isConnected(us, a, b) == a = b \/ follows(us, a, b) \/ follows(us, b, a)
NoEdge(us, a, b) ==
    /\ ~follows(us, a, b) /\ ~follows(us, b, a)
    /\ ~includes(us[a].followers, b) /\ ~includes(us[b].followers, a)

\* C1: with requests one at a time and no failing write, in every state
\* between requests and for all users A and B, B is in A.following if and
\* only if A is in B.followers.
C1_FollowEdgeSymmetric ==
    AllIdle =>
        \A a, b \in Users :
            includes(users[a].following, b) <=> includes(users[b].followers, a)

\* An unfollow has just completed and another edge is still recorded.
C1_Witness ==
    /\ AllIdle
    /\ hist.req.op = "follow" /\ hist.res.status = 200 /\ ~hist.res.isFollowing
    /\ \E a, b \in Users : a # b /\ includes(users[a].following, b)
                             /\ includes(users[b].followers, a)

\* C2: a like or comment on an existing post passes the gate (is not
\* answered 403) exactly when isConnected(actor, post.author): the actor
\* follows the author, or the author follows the actor, or they are the same.
C2_GateIsConnected ==
    (/\ pc[1] = "done"
     /\ req[1].op \in {"like", "comment"}
     /\ hist.posts[req[1].id].exists)
    => (res[1].status # 403
            <=> isConnected(users, req[1].user, hist.posts[req[1].id].author))

\* C3: in every reachable state, interleaved toggleLike requests included,
\* each user id appears at most once in a post's likes.
C3_NoDuplicateLikes ==
    \A i \in PostIds : \A u \in Users : count(posts[i].likes, u) <= 1

\* C4: when toggleFollow(A,B) ends in an error because the write of the
\* target record is rejected after the write of the actor record was
\* applied, neither write is visible: B is in A.following as it was before
\* the request, and the edge is not left one-sided.
C4_FailedFollowLeavesNoWrite ==
    [][\A p \in Procs :
          (pc[p] = "saveUserToFollow" /\ pc'[p] = "done" /\ res'[p].status = 500)
          => LET a == req[p].user
                 b == req[p].id
             IN /\ includes(users'[a].following, b) <=> loc[p].isFollowing
                /\ includes(users'[a].following, b)
                       <=> includes(users'[b].followers, a)]_vars

\* The follow handler run from arrival to response with nothing in between.
SerialFollow(us, r) ==
    LET a == r.user
        b == r.id
    IN IF b \notin Users \/ isSelf(b, a) THEN us
       ELSE IF includes(us[a].following, b)
       THEN [us EXCEPT ![a].following = UnfollowedFollowing(us[a], b),
                       ![b].followers = UnfollowedFollowers(us[b], a)]
       ELSE [us EXCEPT ![a].following = FollowedFollowing(us[a], b),
                       ![b].followers = FollowedFollowers(us[b], a)]

SameFollowSets(us1, us2) ==
    \A u \in Users :
        /\ Members(us1[u].following) = Members(us2[u].following)
        /\ Members(us1[u].followers) = Members(us2[u].followers)

\* C5: when two toggleFollow requests on a common user record overlap and
\* both succeed, the followers and following sets of every user are those of
\* running the two requests in one of the two serial orders.
C5_ConcurrentFollowsSerializable ==
    (/\ Len(hist.reqs) = 2
     /\ \A p \in Procs : pc[p] = "done" /\ res[p].status = 200)
    => LET r1 == hist.reqs[1]
           r2 == hist.reqs[2]
       IN \/ SameFollowSets(users, SerialFollow(SerialFollow(hist.users, r1), r2))
          \/ SameFollowSets(users, SerialFollow(SerialFollow(hist.users, r2), r1))

\* C6: toggleFollow(A,A) is always answered with the self-follow error (400)
\* and never reaches a save, and no user's followers or following contains
\* the user's own id.
C6_NoSelfFollow ==
    /\ \A u \in Users :
          ~includes(users[u].following, u) /\ ~includes(users[u].followers, u)
    /\ \A p \in Procs :
          (req[p].op = "follow" /\ req[p].user = req[p].id)
          => /\ pc[p] \in {"findCurrentUser", "done"}
             /\ pc[p] = "done" => res[p].status = 400

\* A self-follow was refused while a follow edge exists.
C6_Witness ==
    \E p \in Procs :
        /\ pc[p] = "done" /\ req[p].op = "follow" /\ req[p].user = req[p].id
        /\ res[p].status = 400
        /\ \E a, b \in Users : follows(users, a, b)

\* C7: deleteComment removes the comment when the actor is the comment's
\* author; for any other actor, the post's author included, it answers 403
\* and leaves the post as it was; a comment leaves a post that stays stored
\* only through deleteComment by the comment's author.
C7_OnlyCommentAuthorDeletes ==
    /\ (pc[1] = "done" /\ req[1].op = "deleteComment")
       => LET post0 == hist.posts[req[1].id]
              index == commentIndex(post0.comments, req[1].cid)
          IN (post0.exists /\ index > 0)
             => IF post0.comments[index].user = req[1].user
                THEN /\ res[1].status = 200
                     /\ posts[req[1].id].comments = splice(post0.comments, index)
                ELSE /\ res[1].status = 403
                     /\ posts = hist.posts
    /\ \A i \in PostIds :
          posts[i].exists =>
             \A k \in 1..Len(hist.posts[i].comments) :
                LET c == hist.posts[i].comments[k]
                IN commentIndex(posts[i].comments, c.id) = 0
                   => /\ req[1].op = "deleteComment"
                      /\ req[1].id = i /\ req[1].cid = c.id
                      /\ req[1].user = c.user

\* The post's author was refused the deletion of another user's comment.
C7_Witness ==
    /\ pc[1] = "done" /\ req[1].op = "deleteComment" /\ res[1].status = 403
    /\ LET post0 == hist.posts[req[1].id]
           index == commentIndex(post0.comments, req[1].cid)
       IN /\ post0.exists /\ index > 0
          /\ post0.author = req[1].user
          /\ post0.comments[index].user # req[1].user
          /\ posts[req[1].id].comments = post0.comments

LikeAnswered(a, b) ==
    /\ pc[1] = "done" /\ req[1].op = "like"
    /\ req[1].user = a /\ a # b
    /\ hist.posts[req[1].id].exists /\ hist.posts[req[1].id].author = b

\* toggleFollow(A,B) was the request before, succeeded, and found no edge.
JustFollowed(a, b) ==
    /\ hist.req.op = "follow" /\ hist.req.user = a /\ hist.req.id = b
    /\ hist.res.status = 200
    /\ NoEdge(hist.users0, a, b)

\* C9 as stated: with no edge between A and B, toggleLike by A on B's post
\* is answered 403 and leaves the likes unchanged; once toggleFollow(A,B)
\* has succeeded, the same call succeeds and A is in the likes.
C9_LikeAfterFollowAdds ==
    \A a, b \in Users :
        LikeAnswered(a, b) =>
            /\ NoEdge(users, a, b)
               => res[1].status = 403 /\ posts = hist.posts
            /\ JustFollowed(a, b)
               => /\ res[1].status = 200
                  /\ includes(posts[req[1].id].likes, a)

\* C9 as amended: ... once toggleFollow(A,B) has succeeded, the same call
\* succeeds and toggles A's like: A is appended to the likes when it has no
\* entry there, and A's first entry is removed otherwise.
C9_LikeAfterFollowToggles ==
    \A a, b \in Users :
        LikeAnswered(a, b) =>
            /\ NoEdge(users, a, b)
               => res[1].status = 403 /\ posts = hist.posts
            /\ JustFollowed(a, b)
               => LET before == hist.posts[req[1].id].likes
                      after == posts[req[1].id].likes
                  IN /\ res[1].status = 200
                     /\ after = IF includes(before, a)
                                THEN splice(before, findIndex(before, a))
                                ELSE Append(before, a)

\* A was refused earlier or not, then followed B, and A's like was added.
C9_Witness ==
    \E a, b \in Users :
        /\ LikeAnswered(a, b) /\ JustFollowed(a, b)
        /\ res[1].status = 200
        /\ includes(posts[req[1].id].likes, a)
        /\ ~includes(hist.posts[req[1].id].likes, a)

\* The follow request of slot p, which overlapped no other request, has
\* succeeded, and so had the same request just before it.
FollowedTwice(p) ==
    /\ pc[p] = "done" /\ req[p].op = "follow" /\ res[p].status = 200
    /\ Len(hist.reqs) <= 1
    /\ hist.req.op = "follow" /\ hist.res.status = 200
    /\ hist.req.user = req[p].user /\ hist.req.id = req[p].id

\* C10: from any reachable state, two successive successful toggleFollow(A,B)
\* calls with nothing in between restore the members of A.following and of
\* B.followers, isConnected(A,B) and the follower counts of both users.
C10_FollowTwiceRestores ==
    \A p \in Procs :
        FollowedTwice(p)
        => LET a == req[p].user
               b == req[p].id
               us0 == hist.users0
           IN /\ Members(users[a].following) = Members(us0[a].following)
              /\ Members(users[b].followers) = Members(us0[b].followers)
              /\ Len(users[a].followers) = Len(us0[a].followers)
              /\ Len(users[b].followers) = Len(us0[b].followers)
              /\ isConnected(users, a, b) <=> isConnected(us0, a, b)

\* The like request of slot p, which overlapped no other request, has
\* succeeded, and so had the same request just before it.
LikedTwice(p) ==
    /\ pc[p] = "done" /\ req[p].op = "like" /\ res[p].status = 200
    /\ Len(hist.reqs) <= 1
    /\ hist.req.op = "like" /\ hist.res.status = 200
    /\ hist.req.user = req[p].user /\ hist.req.id = req[p].id

\* C11: for every post and every user passing the gate, two successive
\* successful toggleLike calls by that user on that post with nothing in
\* between leave the likes with the members and the count they had before
\* the first call.
C11_LikeTwiceRestores ==
    \A p \in Procs :
        LikedTwice(p)
        => LET before == hist.posts0[req[p].id].likes
               after == posts[req[p].id].likes
           IN /\ Members(after) = Members(before)
              /\ Len(after) = Len(before)

C14_PinnedKeptTagsReset ==
    (pc[1] = "done" /\ req[1].op = "updateNote" /\ res[1].status = 200)
    => LET before == hist.notes[req[1].id]
           after == notes[req[1].id]
       IN /\ req[1].isPinned = undefined => after.isPinned = before.isPinned
          /\ req[1].isPinned # undefined => after.isPinned = req[1].isPinned[1]
          /\ req[1].tags = undefined => after.tags = <<>>

\* A pinned note with tags was updated with an explicit false and no tags.
C14_Witness ==
    /\ pc[1] = "done" /\ req[1].op = "updateNote" /\ res[1].status = 200
    /\ req[1].isPinned = <<FALSE>> /\ req[1].tags = undefined
    /\ hist.notes[req[1].id].isPinned /\ hist.notes[req[1].id].tags # <<>>
    /\ ~notes[req[1].id].isPinned /\ notes[req[1].id].tags = <<>>

\* The request in slot p takes an id from its path and the id, or one of
\* its ids, is not well formed.
MalformedId(p) ==
    /\ req[p].op \in {"follow", "getUser", "update", "delete", "like",
                      "comment", "deleteComment", "updateNote", "deleteNote"}
    /\ \/ ~isValidObjectId(req[p].id)
       \/ req[p].op = "deleteComment" /\ ~isValidObjectId(req[p].cid)

\* C15: every operation that takes an id from the request path (user
\* follow and detail, post update, delete, like, comment and comment delete,
\* note update and delete) answers a malformed id at once with 400, never
\* with 404 or 500, and without touching the store.
C15_MalformedIdIs400 ==
    \A p \in Procs :
        (req[p].op # "none" /\ MalformedId(p))
        => pc[p] = "done" /\ res[p].status = 400

\* C16: addComment places the new comment at the end of the post's
\* comments, and no step of addComment, deleteComment, toggleLike or update
\* changes the relative order of two comments that both remain in the post.
C16_CommentOrderKept ==
    [][\A i \in PostIds :
          (posts[i].exists /\ posts'[i].exists)
          => LET old == posts[i].comments
                 new == posts'[i].comments
             IN /\ \A k, l \in 1..Len(old) :
                      (/\ k < l
                       /\ commentIndex(new, old[k].id) > 0
                       /\ commentIndex(new, old[l].id) > 0)
                      => commentIndex(new, old[k].id)
                            < commentIndex(new, old[l].id)
                /\ \A k \in 1..Len(new) :
                      commentIndex(old, new[k].id) = 0 => k = Len(new)
                /\ \A p \in Procs :
                      (/\ pc[p] = "commentSave" /\ pc'[p] = "done"
                       /\ req[p].id = i /\ res'[p].status = 200)
                      => /\ Len(new) = Len(old) + 1
                         /\ commentIndex(old, last(new).id) = 0
                         /\ last(new).user = req[p].user
                         /\ last(new).content = req[p].content]_vars

\* The first of three comments was deleted and the other two remain, the
\* earlier before the later.
C16_Witness ==
    /\ pc[1] = "done" /\ req[1].op = "deleteComment" /\ res[1].status = 200
    /\ req[1].cid = 1
    /\ Len(posts[req[1].id].comments) = 2
    /\ posts[req[1].id].comments[1].id = 2
    /\ posts[req[1].id].comments[2].id = 3

\* C17: post create, post update and addComment are answered 400 and store
\* nothing when the content is the empty string or white space only.
C17_BlankContentIs400 ==
    (/\ pc[1] = "done" /\ req[1].op \in {"create", "update", "comment"}
     /\ req[1].content \in Blank \cup {""})
    => res[1].status = 400 /\ posts = hist.posts

\* C18: a successful toggleFollow(A,B) returns isFollowing equal to whether
\* B is in the stored A.following after the request, and followersCount
\* equal to the number of entries of the stored B.followers after the
\* request.
C18_FollowResponseIsStored ==
    [][\A p \in Procs :
          (/\ pc[p] = "saveUserToFollow" /\ pc'[p] = "done"
           /\ res'[p].status = 200)
          => /\ res'[p].isFollowing
                   <=> includes(users'[req[p].user].following, req[p].id)
             /\ res'[p].followersCount = Len(users'[req[p].id].followers)]_vars

CommentIds(post) == {post.comments[k].id : k \in 1..Len(post.comments)}

\* Two requests that mutate post i (likes or comments by different users,
\* or a comment delete), the second arrived while the first was in flight,
\* have both been answered 200.
BothMutated(i) ==
    /\ Len(hist.reqs) = 2
    /\ \A p \in Procs : pc[p] = "done" /\ res[p].status = 200
    /\ \A k \in 1..2 :
          /\ hist.reqs[k].op \in {"like", "comment", "deleteComment"}
          /\ hist.reqs[k].id = i
    /\ \/ hist.reqs[1].user # hist.reqs[2].user
       \/ \E k \in 1..2 : hist.reqs[k].op = "deleteComment"

\* C19: when two requests that mutate the same post (toggleLike or
\* addComment by different users, or deleteComment) interleave and both
\* report success, the stored post reflects both: every like is added or
\* removed, every new comment is stored (unless the other request deleted
\* that very comment), every deleted comment is gone, and nothing else
\* changed in the likes and the comments.
C19_BothMutationsStored ==
    \A i \in PostIds :
        BothMutated(i)
        => LET before == hist.posts[i]
               after == posts[i]
               R == {hist.reqs[1], hist.reqs[2]}
               likers == {r.user : r \in {x \in R : x.op = "like"}}
               deleted == {r.cid : r \in {x \in R : x.op = "deleteComment"}}
               added == CommentIds(after) \ CommentIds(before)
               addedAndDeleted == deleted \ CommentIds(before)
           IN /\ after.exists
              /\ \A u \in Users :
                    includes(after.likes, u)
                       <=> (includes(before.likes, u) <=> u \notin likers)
              /\ Len(after.likes) = Cardinality(Members(after.likes))
              /\ deleted \cap CommentIds(after) = {}
              /\ CommentIds(before) \ CommentIds(after) \subseteq deleted
              /\ Len(after.comments) = Cardinality(CommentIds(after))
              /\ Cardinality(added \cup addedAndDeleted) =
                    Cardinality({k \in 1..2 : hist.reqs[k].op = "comment"})
              /\ \A r \in R :
                    r.op = "comment"
                    => \/ addedAndDeleted # {}
                       \/ \E k \in 1..Len(after.comments) :
                             /\ after.comments[k].id \in added
                             /\ after.comments[k].user = r.user

\* The removal of a like and the comment of another user interleaved and
\* both succeeded.
C19_Witness ==
    \E i \in PostIds :
        /\ BothMutated(i)
        /\ \E k, l \in 1..2 :
              /\ hist.reqs[k].op = "like"
              /\ includes(hist.posts[i].likes, hist.reqs[k].user)
              /\ hist.reqs[l].op = "comment"
              /\ hist.reqs[l].user # hist.reqs[k].user
        /\ Len(posts[i].likes) < Len(hist.posts[i].likes)
        /\ Len(posts[i].comments) > Len(hist.posts[i].comments)

\* C20: the gate of toggleLike applies to removing a like too: a user whose
\* like is in the post's likes and who has no edge with the author is
\* answered 403 and the like stays, and once the user follows the author
\* again the call removes it; deleteComment has no gate: with no edge, that
\* user's delete of their own comment succeeds and removes the comment.
C20_GateOnUnlikeNotOnDeleteComment ==
    \A a, b \in Users :
        /\ (LikeAnswered(a, b) /\ includes(hist.posts[req[1].id].likes, a))
           => /\ NoEdge(users, a, b)
                 => res[1].status = 403 /\ posts = hist.posts
              /\ follows(users, a, b)
                 => /\ res[1].status = 200
                    /\ count(posts[req[1].id].likes, a)
                          = count(hist.posts[req[1].id].likes, a) - 1
        /\ (/\ pc[1] = "done" /\ req[1].op = "deleteComment"
            /\ req[1].user = a /\ a # b
            /\ hist.posts[req[1].id].exists /\ hist.posts[req[1].id].author = b
            /\ NoEdge(users, a, b)
            /\ \E k \in 1..Len(hist.posts[req[1].id].comments) :
                  /\ hist.posts[req[1].id].comments[k].id = req[1].cid
                  /\ hist.posts[req[1].id].comments[k].user = a)
           => /\ res[1].status = 200
              /\ req[1].cid \notin CommentIds(posts[req[1].id])
              /\ posts[req[1].id].likes = hist.posts[req[1].id].likes

\* A user who liked and commented a post and then unfollowed its author
\* deleted the comment; the like is still in the post.
C20_Witness ==
    \E a, b \in Users :
        /\ pc[1] = "done" /\ req[1].op = "deleteComment" /\ res[1].status = 200
        /\ req[1].user = a /\ a # b
        /\ posts[req[1].id].exists /\ posts[req[1].id].author = b
        /\ NoEdge(users, a, b)
        /\ includes(posts[req[1].id].likes, a)
        /\ req[1].cid \in CommentIds(hist.posts[req[1].id])
        /\ req[1].cid \notin CommentIds(posts[req[1].id])

====
